---- MODULE Spec2Model ----
(***************************************************************************)
(* A model of bookfeeder.py: the CSV importer, the books/library           *)
(* reconciler, the Goodreads RSS differ, the MyAnonamouse matcher and the  *)
(* module-level acquisition loop.                                          *)
(*                                                                         *)
(* Python strings are sequences of one-character strings, so that strip,   *)
(* split, lower and the substring test are computed as Python computes     *)
(* them.  None is a token no string is equal to.                           *)
(***************************************************************************)
EXTENDS Integers, Sequences, FiniteSets, TLC

VARIABLES
    library,        \* rows of the 'library' table, in id order
    books,          \* rows of the 'books' table, in id order
    csv,            \* the inventory file: [fieldnames, rows]
    count,          \* import_books_from_csv: the number it prints
    repeat,         \* successful imports since the file last changed (0..2)
    books_before,   \* history: the 'books' table when the last scan began
    feeds,          \* what feedparser.parse returns for each feed URL, in order
    missing_books,  \* the module's missing_books list
    book_title,     \* search_on_myanonamouse: the title asked for
    book_author,    \* search_on_myanonamouse: the author asked for
    response,       \* the index's answer to the search request
    torrent_url,    \* what search_on_myanonamouse returned, or None
    idx,            \* acquisition loop: position in missing_books
    searched,       \* history: the books search_on_myanonamouse was called for
    submitted,      \* history: the URLs add_torrent_to_qbittorrent was called for
    error,          \* the exception that ended the last operation, or "none"
    op              \* the last operation that ran

matchVars == <<book_title, book_author, response, torrent_url>>
loopVars == <<idx, searched, submitted>>
vars == <<library, books, csv, count, repeat, books_before, feeds, missing_books,
          book_title, book_author, response, torrent_url, idx, searched,
          submitted, error, op>>

----------------------------------------------------------------------------
(* Strings *)

None == <<"<None>">>

Truthy(s) == s # None /\ s # <<>>

IsSpace(c) == c = " "

RECURSIVE LStrip(_)
LStrip(s) ==
    IF s # <<>> /\ IsSpace(Head(s)) THEN LStrip(Tail(s)) ELSE s

RECURSIVE RStrip(_)
RStrip(s) ==
    IF s # <<>> /\ IsSpace(s[Len(s)]) THEN RStrip(SubSeq(s, 1, Len(s) - 1)) ELSE s

Strip(s) == RStrip(LStrip(s))

UpperCase == <<"A","B","C","D","E","F","G","H","I","J","K","L","M",
               "N","O","P","Q","R","S","T","U","V","W","X","Y","Z">>
LowerCase == <<"a","b","c","d","e","f","g","h","i","j","k","l","m",
               "n","o","p","q","r","s","t","u","v","w","x","y","z">>

LowerChar(c) ==
    IF \E i \in 1..Len(UpperCase) : UpperCase[i] = c
    THEN LowerCase[CHOOSE i \in 1..Len(UpperCase) : UpperCase[i] = c]
    ELSE c

\* str.lower()
Lower(s) == [i \in 1..Len(s) |-> LowerChar(s[i])]

\* The comparison the design document calls normalized: whitespace runs
\* collapsed to one space, trimmed, compared without regard to case.
RECURSIVE Collapse(_)
Collapse(s) ==
    IF Len(s) < 2 THEN s
    ELSE IF IsSpace(s[1]) /\ IsSpace(s[2]) THEN Collapse(Tail(s))
    ELSE <<s[1]>> \o Collapse(Tail(s))

Normalize(s) == Lower(Strip(Collapse(s)))

\* Comparisons of two rows' (authors, title)
SamePair(r1, r2) == r1.authors = r2.authors /\ r1.title = r2.title

SameTrimmedPair(r1, r2) ==
    Strip(r1.authors) = Strip(r2.authors) /\ Strip(r1.title) = Strip(r2.title)

SameNormalizedPair(r1, r2) ==
    Normalize(r1.authors) = Normalize(r2.authors)
        /\ Normalize(r1.title) = Normalize(r2.title)

----------------------------------------------------------------------------
(* The library table and import_books_from_csv *)

\* session.query(Library).filter_by(authors=authors, title=title).first():
\* the columns are compared exactly as stored.
InLibrary(lib, authors, title) ==
    \E i \in 1..Len(lib) : lib[i].authors = authors /\ lib[i].title = title

\* A loop body that stores the cells as read: trims for the lookup only.
ImportRow_StoreUntrimmed(row, acc) ==
    IF Truthy(row.authors) /\ Truthy(row.title)
    THEN LET authors == Strip(row.authors)
             title == Strip(row.title)
         IN  IF Truthy(authors) /\ Truthy(title)
                  /\ ~InLibrary(acc.lib, authors, title)
             THEN [lib |-> Append(acc.lib, [authors |-> row.authors,
                                            title |-> row.title]),
                   count |-> acc.count + 1]
             ELSE acc
    ELSE acc

\* A loop body that looks the cells up as read and trims what it stores.
ImportRow_LookupUntrimmed(row, acc) ==
    IF Truthy(row.authors) /\ Truthy(row.title)
    THEN LET authors == Strip(row.authors)
             title == Strip(row.title)
         IN  IF Truthy(authors) /\ Truthy(title)
                  /\ ~InLibrary(acc.lib, row.authors, row.title)
             THEN [lib |-> Append(acc.lib, [authors |-> authors, title |-> title]),
                   count |-> acc.count + 1]
             ELSE acc
    ELSE acc

\* One row of the reader: both cells present and non-empty, trimmed, still
\* non-empty, and not yet in the table (rows added earlier in the same run
\* are seen: the session flushes before each query).
ImportRow(row, acc) ==
    IF Truthy(row.authors) /\ Truthy(row.title)
    THEN LET authors == Strip(row.authors)
             title == Strip(row.title)
         IN  IF Truthy(authors) /\ Truthy(title)
                  /\ ~InLibrary(acc.lib, authors, title)
             THEN [lib |-> Append(acc.lib, [authors |-> authors, title |-> title]),
                   count |-> acc.count + 1]
             ELSE acc
    ELSE acc

RECURSIVE ImportRows(_, _)
ImportRows(rows, acc) ==
    IF rows = <<>> THEN acc ELSE ImportRows(Tail(rows), ImportRow(Head(rows), acc))

\* 'authors' in reader.fieldnames and 'title' in reader.fieldnames
HeaderValid(fieldnames) ==
    /\ \E i \in 1..Len(fieldnames) : fieldnames[i] = "authors"
    /\ \E i \in 1..Len(fieldnames) : fieldnames[i] = "title"

----------------------------------------------------------------------------
(* The books table and Library.scan_and_update_books *)

ACTIVE == "active"
MISSING == "missing"

Book(authors, title, status) ==
    [authors |-> authors, title |-> title, status |-> status]

\* session.query(Book).filter_by(authors=authors, title=title).first():
\* the row of lowest id among the matches, 0 when there is none.
FirstBook(bks, authors, title) ==
    IF \E i \in 1..Len(bks) : bks[i].authors = authors /\ bks[i].title = title
    THEN CHOOSE i \in 1..Len(bks) :
            /\ bks[i].authors = authors /\ bks[i].title = title
            /\ \A j \in 1..(i - 1) :
                  ~(bks[j].authors = authors /\ bks[j].title = title)
    ELSE 0

\* Book.mark_as_active / Book.mark_as_missing
MarkAsActive(bks, i) == [bks EXCEPT ![i].status = ACTIVE]
MarkAsMissing(bks, i) == [bks EXCEPT ![i].status = MISSING]

\* A loop body that adds absent rows and leaves the rows it finds alone.
ScanRow_NoReactivate(lib_book, bks) ==
    LET authors == Strip(lib_book.authors)
        title == Strip(lib_book.title)
    IN  IF FirstBook(bks, authors, title) # 0 THEN bks
        ELSE Append(bks, Book(authors, title, ACTIVE))

\* The body of the loop over the library rows.
ScanRow(lib_book, bks) ==
    LET authors == Strip(lib_book.authors)
        title == Strip(lib_book.title)
        i == FirstBook(bks, authors, title)
    IN  IF i # 0 THEN MarkAsActive(bks, i)
        ELSE Append(bks, Book(authors, title, ACTIVE))

RECURSIVE ScanRows(_, _)
ScanRows(library_books, bks) ==
    IF library_books = <<>> THEN bks
    ELSE ScanRows(Tail(library_books), ScanRow(Head(library_books), bks))

\* A scan that first demotes every row, then reactivates the rows it meets.
ScanAndUpdate_DemoteFirst(library_books, bks) ==
    ScanRows(library_books,
             [j \in 1..Len(bks) |-> [bks[j] EXCEPT !.status = MISSING]])

\* The table scan_and_update_books commits.
ScanAndUpdate(library_books, bks) == ScanRows(library_books, bks)

----------------------------------------------------------------------------
(* Library.check_goodreads_rss *)

MissingBook(authors, title) == [authors |-> authors, title |-> title]

\* any(book for book in missing_books if book['authors'] == authors and ...)
AlreadyMissing(missing, authors, title) ==
    \E i \in 1..Len(missing) :
        missing[i].authors = authors /\ missing[i].title = title

\* An entry handler that appends without looking at the list so far.
CheckEntry_NoDedupe(entry, lib, missing) ==
    IF ~Truthy(entry.author_name) \/ ~Truthy(entry.title) THEN missing
    ELSE LET authors == Strip(entry.author_name)
             title == Strip(entry.title)
         IN  IF ~InLibrary(lib, authors, title)
             THEN Append(missing, MissingBook(authors, title))
             ELSE missing

\* One entry of a feed: both fields present and non-empty, trimmed, looked up
\* in the library as trimmed, appended unless already in the list.
CheckEntry(entry, lib, missing) ==
    IF ~Truthy(entry.author_name) \/ ~Truthy(entry.title) THEN missing
    ELSE LET authors == Strip(entry.author_name)
             title == Strip(entry.title)
         IN  IF ~InLibrary(lib, authors, title)
                  /\ ~AlreadyMissing(missing, authors, title)
             THEN Append(missing, MissingBook(authors, title))
             ELSE missing

RECURSIVE CheckEntries(_, _, _)
CheckEntries(entries, lib, missing) ==
    IF entries = <<>> THEN missing
    ELSE CheckEntries(Tail(entries), lib, CheckEntry(Head(entries), lib, missing))

\* One feed: skipped when feedparser set bozo.
CheckFeed(feed, lib, missing) ==
    IF feed.bozo THEN missing ELSE CheckEntries(feed.entries, lib, missing)

\* A loop that ends at the first feed with a parsing error.
RECURSIVE CheckFeeds_StopAtBozo(_, _, _)
CheckFeeds_StopAtBozo(fs, lib, missing) ==
    IF fs = <<>> \/ Head(fs).bozo THEN missing
    ELSE CheckFeeds_StopAtBozo(Tail(fs), lib, CheckFeed(Head(fs), lib, missing))

RECURSIVE CheckFeeds(_, _, _)
CheckFeeds(fs, lib, missing) ==
    IF fs = <<>> THEN missing
    ELSE CheckFeeds(Tail(fs), lib, CheckFeed(Head(fs), lib, missing))

----------------------------------------------------------------------------
(* search_on_myanonamouse *)

\* str.split(): the maximal runs of non-whitespace characters, in order.
RECURSIVE SplitFrom(_, _)
SplitFrom(s, word) ==
    IF s = <<>> THEN (IF word = <<>> THEN <<>> ELSE <<word>>)
    ELSE IF IsSpace(Head(s))
         THEN (IF word = <<>> THEN <<>> ELSE <<word>>) \o SplitFrom(Tail(s), <<>>)
         ELSE SplitFrom(Tail(s), Append(word, Head(s)))

Split(s) == SplitFrom(s, <<>>)

\* needle in hay
Contains(hay, needle) ==
    \E i \in 0..(Len(hay) - Len(needle)) :
        SubSeq(hay, i + 1, i + Len(needle)) = needle

\* A test that is content with one word of the title.
TitleMatch_AnyWord(title, torrent_title) ==
    \E w \in 1..Len(Split(title)) :
        Contains(Lower(torrent_title), Lower(Split(title)[w]))

\* all(word.lower() in torrent_title.lower() for word in book_title.split())
TitleMatch(title, torrent_title) ==
    \A w \in 1..Len(Split(title)) :
        Contains(Lower(torrent_title), Lower(Split(title)[w]))

\* f"{MAM_BASE_URL}/tor/download.php?tid={torrent_id}"
DownloadUrl(torrent_id) == <<"/tor/download.php?tid=", torrent_id>>

\* A result's author_info: a mapping of author id to name, or None.
AuthorInfo(pairs) == <<"dict">> \o pairs

AuthorNames(info) == { info[i][2] : i \in 2..Len(info) }

\* The result the loop over the results settles on: 0 when it settles on none.
RECURSIVE FirstMatchFrom(_, _, _)
FirstMatchFrom(results, title, k) ==
    IF k > Len(results) THEN 0
    ELSE IF /\ Truthy(results[k].name)
            /\ TitleMatch(title, results[k].name)
            /\ Truthy(results[k].dl)
         THEN k
         ELSE FirstMatchFrom(results, title, k + 1)

\* A loop that gives up when the first title match has no dl.
FirstMatch_StopAtFirstTitleMatch(results, title) ==
    IF \E k \in 1..Len(results) :
          Truthy(results[k].name) /\ TitleMatch(title, results[k].name)
    THEN LET k == CHOOSE k \in 1..Len(results) :
                    /\ Truthy(results[k].name) /\ TitleMatch(title, results[k].name)
                    /\ \A m \in 1..(k - 1) :
                          ~(Truthy(results[m].name)
                              /\ TitleMatch(title, results[m].name))
         IN  IF Truthy(results[k].dl) THEN k ELSE 0
    ELSE 0

FirstMatch(results, title) == FirstMatchFrom(results, title, 1)

\* search_on_myanonamouse: raises when the request fails, else the download
\* URL of the result settled on, else None.  book_author goes into the search
\* text only.
SearchOnMyanonamouse(title, author, resp) ==
    IF ~resp.ok THEN [raised |-> TRUE, url |-> None]
    ELSE LET k == FirstMatch(resp.data, title)
         IN  [raised |-> FALSE,
              url |-> IF k = 0 THEN None ELSE DownloadUrl(resp.data[k].id)]

\* Before any search, before the acquisition loop.
NoSearch ==
    /\ book_title = <<>>
    /\ book_author = <<>>
    /\ response = [ok |-> TRUE, data |-> <<>>]
    /\ torrent_url = None

NoLoop ==
    /\ idx = 0
    /\ searched = <<>>
    /\ submitted = <<>>

----------------------------------------------------------------------------
(* Inventory files *)

S_ab == <<"a"," ","b">>
S_Ab == <<"A"," ","b">>
S_a2b == <<"a"," "," ","b">>
S_ab_padded == <<" ","a"," ","b"," ">>
S_z == <<"z">>
S_t == <<"t">>
S_t_padded == <<"t"," ">>
S_blank == <<" ">>

CsvRow(a, t) == [authors |-> a, title |-> t]

\* Rows a reader can yield: plain, differing in case, in inner whitespace, in
\* padding; a blank cell, an empty cell, and a short row (title is None).
CsvRowPool ==
    { CsvRow(S_ab, S_t), CsvRow(S_Ab, S_t), CsvRow(S_a2b, S_t),
      CsvRow(S_ab_padded, S_t_padded), CsvRow(S_blank, S_t),
      CsvRow(<<>>, S_t), CsvRow(S_ab, None) }

MaxRows == 2

CsvRowSeqs == UNION { [1..k -> CsvRowPool] : k \in 0..MaxRows }

CsvFiles ==
    { [fieldnames |-> <<"authors", "title">>, rows |-> r] : r \in CsvRowSeqs }
    \cup { [fieldnames |-> h, rows |-> <<CsvRow(S_ab, S_t)>>] :
             h \in { <<"author", "title">>, <<"Authors", "Title">> } }

----------------------------------------------------------------------------
(* Importer: the file changes, the importer runs *)

WriteCsv(f) ==
    /\ f # csv
    /\ csv' = f
    /\ repeat' = 0
    /\ op' = "write"
    /\ UNCHANGED <<library, books, books_before, count, error, feeds, missing_books,
                   matchVars, loopVars>>

import_books_from_csv ==
    /\ IF HeaderValid(csv.fieldnames)
       THEN LET r == ImportRows(csv.rows, [lib |-> library, count |-> 0])
            IN  /\ library' = r.lib
                /\ count' = r.count
                /\ error' = "none"
                /\ repeat' = IF repeat < 2 THEN repeat + 1 ELSE 2
       ELSE /\ error' = "ValueError"
            /\ repeat' = 0
            /\ UNCHANGED <<library, count>>
    /\ op' = "import"
    /\ UNCHANGED <<books, books_before, csv, feeds, missing_books,
                   matchVars, loopVars>>

InitImport ==
    /\ library = <<>>
    /\ books = <<>>
    /\ books_before = <<>>
    /\ csv \in CsvFiles
    /\ count = 0
    /\ repeat = 0
    /\ feeds = <<>>
    /\ missing_books = <<>>
    /\ NoSearch /\ NoLoop
    /\ error = "none"
    /\ op = "init"

NextImport ==
    \/ \E f \in CsvFiles : WriteCsv(f)
    \/ import_books_from_csv

SpecImport == InitImport /\ [][NextImport]_vars

----------------------------------------------------------------------------
(* Reconciler: scans of an imported library, and rows marked missing *)

scan_and_update_books ==
    /\ books' = ScanAndUpdate(library, books)
    /\ books_before' = books
    /\ op' = "scan"
    /\ error' = "none"
    /\ UNCHANGED <<library, csv, count, repeat, feeds, missing_books,
                   matchVars, loopVars>>

mark_as_missing(i) ==
    /\ books[i].status = ACTIVE
    /\ books' = MarkAsMissing(books, i)
    /\ op' = "mark"
    /\ UNCHANGED <<library, csv, count, repeat, books_before, error, feeds,
                   missing_books,
                   matchVars, loopVars>>

\* What the books table may hold before the first scan.
SeedBookPool ==
    { Book(S_ab, S_t, ACTIVE), Book(S_ab, S_t, MISSING),
      Book(S_z, S_t, ACTIVE), Book(S_z, S_t, MISSING) }

MaxSeed == 2

SeedBooks == UNION { [1..k -> SeedBookPool] : k \in 0..MaxSeed }

\* The library tables an earlier import can have left.
LibrariesAfterImport ==
    { ImportRows(r, [lib |-> <<>>, count |-> 0]).lib : r \in CsvRowSeqs }

InitReconcile ==
    /\ library \in LibrariesAfterImport
    /\ books \in SeedBooks
    /\ books_before = books
    /\ csv = [fieldnames |-> <<"authors", "title">>, rows |-> <<>>]
    /\ count = 0
    /\ repeat = 0
    /\ feeds = <<>>
    /\ missing_books = <<>>
    /\ NoSearch /\ NoLoop
    /\ error = "none"
    /\ op = "init"

NextReconcile ==
    \/ scan_and_update_books
    \/ \E i \in 1..Len(books) : mark_as_missing(i)

SpecReconcile == InitReconcile /\ [][NextReconcile]_vars

----------------------------------------------------------------------------
(* Differ: one run of check_goodreads_rss over a list of parsed feeds *)

Entry(a, t) == [author_name |-> a, title |-> t]

\* Feed entries: plain, the same pair padded, another author with a blank
\* title, and one with no author.
EntryPool ==
    { Entry(S_ab, S_t), Entry(S_ab_padded, S_t_padded), Entry(S_z, S_blank),
      Entry(None, S_t) }

\* What feedparser salvaged from the feed it could not parse.
BozoFeed == [bozo |-> TRUE, entries |-> <<Entry(S_z, S_t), Entry(S_ab, S_t)>>]

MaxFeeds == 3
MaxEntries == 3

\* The feeds that parsed, of 1 to n entries.
GoodFeeds(n) ==
    { [bozo |-> FALSE, entries |-> e] :
        e \in UNION { [1..k -> EntryPool] : k \in 1..n } }

\* The lists of at most k feeds whose parsed feeds hold at most n entries
\* in all.
RECURSIVE FeedLists(_, _)
FeedLists(k, n) ==
    IF k = 0 THEN { <<>> }
    ELSE { <<>> }
         \cup { <<BozoFeed>> \o rest : rest \in FeedLists(k - 1, n) }
         \cup UNION { { <<f>> \o rest :
                          rest \in FeedLists(k - 1, n - Len(f.entries)) } :
                      f \in GoodFeeds(n) }

\* The library after the import of a one-row file.
DifferLibraries ==
    { ImportRows(<<r>>, [lib |-> <<>>, count |-> 0]).lib :
        r \in { CsvRow(S_ab, S_t), CsvRow(S_Ab, S_t) } }

check_goodreads_rss ==
    /\ missing_books' = CheckFeeds(feeds, library, <<>>)
    /\ op' = "differ"
    /\ error' = "none"
    /\ UNCHANGED <<library, books, books_before, csv, count, repeat, feeds,
                   matchVars, loopVars>>

InitDiffer ==
    /\ library \in DifferLibraries
    /\ books = <<>>
    /\ books_before = <<>>
    /\ csv = [fieldnames |-> <<"authors", "title">>, rows |-> <<>>]
    /\ count = 0
    /\ repeat = 0
    /\ feeds \in FeedLists(MaxFeeds, MaxEntries)
    /\ missing_books = <<>>
    /\ NoSearch /\ NoLoop
    /\ error = "none"
    /\ op = "init"

NextDiffer == op = "init" /\ check_goodreads_rss

SpecDiffer == InitDiffer /\ [][NextDiffer]_vars

----------------------------------------------------------------------------
(* Matcher: one call of search_on_myanonamouse *)

S_TheFireNextTime ==
    <<"T","h","e"," ","F","i","r","e"," ","N","e","x","t"," ","T","i","m","e">>
S_FireNextTime ==
    <<"F","i","r","e"," ","N","e","x","t"," ","T","i","m","e">>
S_TimeNextFire ==
    <<"t","i","m","e"," ","n","e","x","t"," "," ","f","i","r","e">>
S_FireNextTimeNovel ==
    <<"F","i","r","e"," ","N","e","x","t"," ","T","i","m","e",":"," ","A"," ","N","o","v","e","l"," ","(","U","n","a","b","r","i","d","g","e","d",")">>
S_TheLastTime ==
    <<"T","h","e"," ","L","a","s","t"," ","T","i","m","e">>
S_JamesBaldwin ==
    <<"J","a","m","e","s"," ","B","a","l","d","w","i","n">>
S_JBaldwin == <<"J","."," ","B","a","l","d","w","i","n">>
S_GeorgeSaunders ==
    <<"G","e","o","r","g","e"," ","S","a","u","n","d","e","r","s">>
S_LincolnInTheBardo ==
    <<"L","i","n","c","o","l","n"," ","i","n"," ","t","h","e"," ","B","a","r","d","o">>
S_LincolnAudio ==
    <<"L","I","N","C","O","L","N"," ","I","N"," ","T","H","E"," ","B","A","R","D","O"," ","[","a","u","d","i","o","b","o","o","k","]">>
S_hash == <<"h">>

Result(id, name, dl, author_info) ==
    [id |-> id, name |-> name, dl |-> dl, author_info |-> author_info]

\* Results of the index: the display titles of the design document, with and
\* without a dl hash, with the author asked for, another author, or none.
ResultPool ==
    { Result(1, S_FireNextTimeNovel, S_hash, AuthorInfo(<< <<42, S_JamesBaldwin>> >>)),
      Result(2, S_FireNextTimeNovel, S_hash, AuthorInfo(<< <<42, S_JBaldwin>> >>)),
      Result(3, S_FireNextTimeNovel, <<>>, None),
      Result(4, S_TheLastTime, S_hash, None),
      Result(5, S_TheFireNextTime, S_hash, AuthorInfo(<< <<42, S_JamesBaldwin>> >>)),
      Result(6, None, S_hash, None),
      Result(7, S_LincolnAudio, S_hash, None) }

MaxResults == 2

Responses ==
    { [ok |-> TRUE, data |-> d] :
        d \in UNION { [1..k -> ResultPool] : k \in 0..MaxResults } }
    \cup { [ok |-> FALSE, data |-> <<>>] }

search_on_myanonamouse ==
    LET r == SearchOnMyanonamouse(book_title, book_author, response)
    IN  /\ torrent_url' = r.url
        /\ error' = IF r.raised THEN "HTTPError" ELSE "none"
        /\ op' = "search"
        /\ UNCHANGED <<library, books, books_before, csv, count, repeat, feeds,
                       missing_books, book_title, book_author, response, loopVars>>

InitMatch ==
    /\ library = <<>>
    /\ books = <<>>
    /\ books_before = <<>>
    /\ csv = [fieldnames |-> <<"authors", "title">>, rows |-> <<>>]
    /\ count = 0
    /\ repeat = 0
    /\ feeds = <<>>
    /\ missing_books = <<>>
    /\ book_title \in { S_TheFireNextTime, S_FireNextTime, S_TimeNextFire,
                         S_LincolnInTheBardo }
    /\ book_author \in { S_JamesBaldwin, S_GeorgeSaunders }
    /\ response \in Responses
    /\ torrent_url = None
    /\ NoLoop
    /\ error = "none"
    /\ op = "init"

NextMatch == op = "init" /\ search_on_myanonamouse

SpecMatch == InitMatch /\ [][NextMatch]_vars

----------------------------------------------------------------------------
(* The module-level script: qBittorrent login, the example list, the loop *)

\* login_resp.raise_for_status() and the "Ok." test
qbittorrent_login(ok) ==
    /\ op' = "login"
    /\ error' = IF ok THEN "none" ELSE "AuthError"
    /\ UNCHANGED <<library, books, books_before, csv, count, repeat, feeds,
                   missing_books, matchVars, loopVars>>

\* missing_books = [{"authors": "George Saunders", "title": "Lincoln in the Bardo"}]
ExampleMissingBooks == << MissingBook(S_GeorgeSaunders, S_LincolnInTheBardo) >>

example_missing_books ==
    /\ missing_books' = ExampleMissingBooks
    /\ idx' = 1
    /\ op' = "loop"
    /\ UNCHANGED <<library, books, books_before, csv, count, repeat, feeds,
                   matchVars, searched, submitted, error>>

\* One pass of the loop up to the test of torrent_url: the search for
\* missing_books[idx].  An exception leaves the loop and ends the script.
acquisition_search(resp) ==
    /\ op = "loop" /\ error = "none"
    /\ idx <= Len(missing_books)
    /\ LET book == missing_books[idx]
           r == SearchOnMyanonamouse(book.title, book.authors, resp)
       IN  /\ book_title' = book.title
           /\ book_author' = book.authors
           /\ response' = resp
           /\ searched' = Append(searched, book)
           /\ torrent_url' = r.url
           /\ error' = IF r.raised THEN "HTTPError" ELSE "none"
           /\ op' = IF ~r.raised /\ r.url # None THEN "found" ELSE "loop"
           /\ idx' = IF ~r.raised /\ r.url = None THEN idx + 1 ELSE idx
    /\ UNCHANGED <<library, books, books_before, csv, count, repeat, feeds,
                   missing_books, submitted>>

\* The rest of the pass: add_torrent_to_qbittorrent(torrent_url).  An
\* exception of add_resp.raise_for_status() ends the script.
add_torrent_to_qbittorrent(ok) ==
    /\ op = "found" /\ error = "none"
    /\ submitted' = Append(submitted, torrent_url)
    /\ error' = IF ok THEN "none" ELSE "HTTPError"
    /\ op' = IF ok THEN "loop" ELSE "found"
    /\ idx' = IF ok THEN idx + 1 ELSE idx
    /\ UNCHANGED <<library, books, books_before, csv, count, repeat, feeds,
                   missing_books, matchVars, searched>>

\* What the index answers inside the loop: a failure, nothing, a result for
\* the example book, a result for James Baldwin's.
LoopResponses ==
    { [ok |-> FALSE, data |-> <<>>],
      [ok |-> TRUE, data |-> <<>>],
      [ok |-> TRUE, data |-> << Result(7, S_LincolnAudio, S_hash, None) >>],
      [ok |-> TRUE, data |->
          << Result(1, S_FireNextTimeNovel, S_hash,
                    AuthorInfo(<< <<42, S_JamesBaldwin>> >>)) >>] }

MissingBookPool ==
    { MissingBook(S_GeorgeSaunders, S_LincolnInTheBardo),
      MissingBook(S_JamesBaldwin, S_FireNextTime),
      MissingBook(S_JamesBaldwin, S_TheFireNextTime) }

MaxMissing == 3

\* The loop over a missing_books list of up to MaxMissing books.
InitAcquire ==
    /\ library = <<>>
    /\ books = <<>>
    /\ books_before = <<>>
    /\ csv = [fieldnames |-> <<"authors", "title">>, rows |-> <<>>]
    /\ count = 0
    /\ repeat = 0
    /\ feeds = <<>>
    /\ missing_books \in UNION { [1..k -> MissingBookPool] : k \in 0..MaxMissing }
    /\ NoSearch
    /\ idx = 1
    /\ searched = <<>>
    /\ submitted = <<>>
    /\ error = "none"
    /\ op = "loop"

NextAcquire ==
    \/ \E resp \in LoopResponses : acquisition_search(resp)
    \/ \E ok \in BOOLEAN : add_torrent_to_qbittorrent(ok)

SpecAcquire == InitAcquire /\ [][NextAcquire]_vars

\* The script run as __main__, top to bottom.
PipelineCsvFiles ==
    { [fieldnames |-> <<"authors", "title">>, rows |-> <<r>>] : r \in CsvRowPool }
    \cup { [fieldnames |-> <<"author", "title">>, rows |-> <<CsvRow(S_ab, S_t)>>] }

InitPipeline ==
    /\ library = <<>>
    /\ books = <<>>
    /\ books_before = <<>>
    /\ csv \in PipelineCsvFiles
    /\ count = 0
    /\ repeat = 0
    /\ feeds \in FeedLists(2, 1)
    /\ missing_books = <<>>
    /\ NoSearch /\ NoLoop
    /\ error = "none"
    /\ op = "init"

NextPipeline ==
    \/ op = "init" /\ import_books_from_csv
    \/ op = "import" /\ error = "none" /\ scan_and_update_books
    \/ op = "scan" /\ check_goodreads_rss
    \/ op = "differ" /\ \E ok \in BOOLEAN : qbittorrent_login(ok)
    \/ op = "login" /\ error = "none" /\ example_missing_books
    \/ \E resp \in LoopResponses : acquisition_search(resp)
    \/ \E ok \in BOOLEAN : add_torrent_to_qbittorrent(ok)

SpecPipeline == InitPipeline /\ [][NextPipeline]_vars

----------------------------------------------------------------------------
(* Properties *)

\* C1: running the importer a second time in a row on the same file leaves
\* the library table as the first run left it and inserts 0 rows.
C1_ImportIdempotent ==
    [][(op' = "import" /\ error' = "none" /\ repeat' = 2)
          => (library' = library /\ count' = 0)]_vars

C1_Witness ==
    /\ op = "import" /\ repeat = 2 /\ count = 0
    /\ Len(library) >= 2
    /\ \E i \in 1..Len(csv.rows) : csv.rows[i].authors = S_ab_padded

HasBook(bks, r) ==
    \E j \in 1..Len(bks) : SamePair(bks[j], r)

\* C3: after scan_and_update_books, every library row has a books row with
\* the same (authors, title) whose status is ACTIVE.
C3_ScanTotal ==
    op = "scan" =>
        \A i \in 1..Len(library) :
            \E j \in 1..Len(books) :
                SamePair(books[j], library[i]) /\ books[j].status = ACTIVE

\* A scan that met a library row whose books row was MISSING, and another
\* with no books row.
C3_Witness ==
    /\ op = "scan"
    /\ \E i \in 1..Len(library) :
          \E j \in 1..Len(books_before) :
              SamePair(books_before[j], library[i])
                  /\ books_before[j].status = MISSING
    /\ \E i \in 1..Len(library) : ~HasBook(books_before, library[i])

\* The entries of the feeds that parsed, in feed order then document order.
RECURSIVE ParsedEntries(_)
ParsedEntries(fs) ==
    IF fs = <<>> THEN <<>>
    ELSE (IF Head(fs).bozo THEN <<>> ELSE Head(fs).entries)
            \o ParsedEntries(Tail(fs))

TrimmedPair(e) == MissingBook(Strip(e.author_name), Strip(e.title))

\* An entry with both fields present and non-empty whose trimmed pair has no
\* library row equal to it.
Wanted(e, lib) ==
    /\ Truthy(e.author_name) /\ Truthy(e.title)
    /\ ~InLibrary(lib, Strip(e.author_name), Strip(e.title))

FirstSeen(es, lib, p) ==
    CHOOSE k \in 1..Len(es) :
        /\ Wanted(es[k], lib) /\ TrimmedPair(es[k]) = p
        /\ \A m \in 1..(k - 1) : ~(Wanted(es[m], lib) /\ TrimmedPair(es[m]) = p)

C5_BozoFeedsSkipped ==
    op = "differ" =>
        /\ error = "none"
        /\ missing_books
              = CheckFeeds(SelectSeq(feeds, LAMBDA f : ~f.bozo), library, <<>>)

\* Three feeds, the second with a parsing error and entries of its own; the
\* first and the third each contribute a pair.
C5_Witness ==
    /\ op = "differ"
    /\ Len(feeds) = 3
    /\ ~feeds[1].bozo /\ feeds[2].bozo /\ ~feeds[3].bozo
    /\ Len(feeds[2].entries) > 0
    /\ Len(missing_books) = 2
    /\ \E k \in 1..Len(feeds[1].entries) :
          TrimmedPair(feeds[1].entries[k]) = missing_books[1]
    /\ \E k \in 1..Len(feeds[3].entries) :
          TrimmedPair(feeds[3].entries[k]) = missing_books[2]
    /\ \A k \in 1..Len(feeds[1].entries) :
          TrimmedPair(feeds[1].entries[k]) # missing_books[2]

\* The script has nothing left to run: an exception ended it, or the loop
\* ran off the end of missing_books.
Halted ==
    \/ error # "none"
    \/ op = "loop" /\ idx > Len(missing_books)

\* C6: a failed search or submission for one book does not keep the books
\* after it from being searched: when the script halts, every book of
\* missing_books has been searched.
C6_FailureIsolated ==
    (op \in {"loop", "found"} /\ Halted) => Len(searched) = Len(missing_books)

\* What check_goodreads_rss returned in this run.
DifferOutput == CheckFeeds(feeds, library, <<>>)

\* C7: the matcher is called for the books the differ returned in this run,
\* once each and in order, and for nothing else; the submitter no more often
\* than the matcher.
C7_MatcherCalledForDifferOutput ==
    op \in {"differ", "login", "loop", "found"} =>
        /\ \A i \in 1..Len(searched) :
              i <= Len(DifferOutput) /\ searched[i] = DifferOutput[i]
        /\ (op = "loop" /\ error = "none" /\ idx > Len(missing_books))
              => Len(searched) = Len(DifferOutput)
        /\ Len(submitted) <= Len(searched)

\* A result the loop may settle on: it has a name that passes the title
\* test and a non-empty dl.
Qualifies(r, title) ==
    Truthy(r.name) /\ TitleMatch(title, r.name) /\ Truthy(r.dl)

\* The result whose download URL was returned.
Selected ==
    CHOOSE r \in { response.data[k] : k \in 1..Len(response.data) } :
        DownloadUrl(r.id) = torrent_url

Returned == op = "search" /\ error = "none"

C9_TitlePolicyAsStated ==
    (Returned /\ book_title = S_TheFireNextTime) =>
        /\ (/\ Len(response.data) >= 1
            /\ response.data[1].name = S_FireNextTimeNovel
            /\ Truthy(response.data[1].dl))
              => torrent_url = DownloadUrl(response.data[1].id)
        /\ torrent_url # None => Selected.name # S_TheLastTime

\* C9 as amended: asked for "The Fire Next Time", the title test rejects
\* "Fire Next Time: A Novel (Unabridged)" (no "the" in it) as well as "The
\* Last Time"; asked for "Fire Next Time", in any word order and case, it
\* accepts the former and rejects the latter.
C9_TitlePolicy ==
    Returned =>
        /\ (book_title = S_TheFireNextTime /\ torrent_url # None) =>
              Selected.name \notin { S_FireNextTimeNovel, S_TheLastTime }
        /\ book_title \in { S_FireNextTime, S_TimeNextFire } =>
              /\ (/\ Len(response.data) >= 1
                  /\ response.data[1].name = S_FireNextTimeNovel
                  /\ Truthy(response.data[1].dl))
                    => torrent_url = DownloadUrl(response.data[1].id)
              /\ torrent_url # None => Selected.name # S_TheLastTime

\* Asked for "The Fire Next Time", offered both display titles with a dl:
\* neither is taken.
C9_Witness ==
    /\ Returned
    /\ book_title = S_TheFireNextTime
    /\ Len(response.data) = 2
    /\ response.data[1].name = S_FireNextTimeNovel /\ Truthy(response.data[1].dl)
    /\ response.data[2].name = S_TheLastTime /\ Truthy(response.data[2].dl)
    /\ torrent_url = None

\* C10: a scan deletes no books row, sets no status to MISSING, leaves the
\* rows whose (authors, title) is not in the library as they were, and
\* otherwise only sets matched rows ACTIVE and appends ACTIVE rows for
\* library pairs that had no row.
C10_ScanFrame ==
    op = "scan" =>
        /\ Len(books) >= Len(books_before)
        /\ \A j \in 1..Len(books_before) :
              /\ SamePair(books[j], books_before[j])
              /\ books[j].status \in {books_before[j].status, ACTIVE}
              /\ ~HasBook(library, books_before[j]) => books[j] = books_before[j]
        /\ \A j \in (Len(books_before) + 1)..Len(books) :
              /\ books[j].status = ACTIVE
              /\ HasBook(library, books[j])
              /\ ~HasBook(books_before, books[j])

\* A scan over a table holding a MISSING row with no library row (kept), a
\* MISSING row with a library row (set ACTIVE), and lacking a row (appended).
C10_Witness ==
    /\ op = "scan"
    /\ Len(books) > Len(books_before)
    /\ \E j \in 1..Len(books_before) :
          /\ ~HasBook(library, books_before[j])
          /\ books_before[j].status = MISSING /\ books[j].status = MISSING
    /\ \E j \in 1..Len(books_before) :
          /\ HasBook(library, books_before[j])
          /\ books_before[j].status = MISSING /\ books[j].status = ACTIVE

====
